---- MODULE Spec2Model ----
(***************************************************************************)
(* A model of supremm/summarize_mpi.py.                                    *)
(*                                                                         *)
(* Two state machines are described.                                       *)
(*   Spec        the master/worker protocol of processjobs(): rank 0       *)
(*               walks the configured resources, sends the jobs of each    *)
(*               matching resource to the workers, drains the completion   *)
(*               reports and sends the shutdown messages; every other rank *)
(*               walks the same resources and serves jobs until a shutdown *)
(*               message arrives.                                          *)
(*   RunnerSpec  one call of summarizejob() on one job, statement group by *)
(*               statement group, with the collaborators' results          *)
(*               (extract_and_merge_logs, Summarize.good_enough, the       *)
(*               clock, raised exceptions) chosen nondeterministically.    *)
(*   FairSpec    the protocol when every call of summarizejob() returns    *)
(*               and the ranks keep running, for termination.              *)
(* In Spec a call of summarizejob() is seen as its caller sees it: it      *)
(* returns (having called dblog.markasdone() or not) or it lets an         *)
(* exception through.                                                      *)
(***************************************************************************)
EXTENDS Integers, Sequences, FiniteSets, TLC

(***************************************************************************)
(* Bounds of the protocol model.                                           *)
(***************************************************************************)
NumWorkers == 2
NumResources == 2
MaxJobs == 3

Resources == 1..NumResources

\* The shutdown message: comm.send(None, ...).
None == "None"

VARIABLES
    \* ---- main(), processjobs(): configuration shared by all ranks
    threads,       \* opts['threads'] = comm.Get_size()
    matching,      \* the resources that pass the filter of line 361
    \* ---- processjobs(), rank 0
    mpc,           \* position of rank 0
    mres,          \* index of the resource rank 0 is at (0 before the first)
    njobs,         \* length of the job stream of that resource
    spos,          \* number of jobs already pulled from the current stream
    numsent,
    numreceived,
    shutidx,       \* the loop variable `worker` of line 441
    process,       \* the rank the receive of line 421 returned
    \* ---- messages in flight (tag 1), FIFO per pair of ranks
    tow,           \* tow[w]: rank 0 -> rank w
    tom,           \* tom[w]: rank w -> rank 0
    \* ---- processjobs(), rank w >= 1
    wpc,           \* position of rank w
    wres,          \* index of the resource rank w is at
    wjob,          \* the job rank w holds (None when it holds none)
    \* ---- history of the run
    sentlog,       \* the job messages rank 0 sent for the resource it is
                   \* at, in order: <<job, dest>>
    sentinels,     \* sentinels[w]: resources at which None was sent to w
    recvlog,       \* recvlog[w]: <<job, wres>> for each job rank w received
                   \* for the resource it is at
    reportlog,     \* reportlog[w]: the number of completion reports rank w
                   \* sent for the resource it is at
    marklog,       \* marklog[k]: the number of dblog.markasdone() calls
                   \* made for the k-th job of the stream rank 0 is at
    aborted        \* aborted[w]: the calls that raised in the call of
                   \* summarizejob() that ended rank w (<<>> if none did)

pvars == <<threads, matching, njobs, mpc, mres, spos, numsent, numreceived,
           shutidx, process, tow, tom, wpc, wres, wjob, sentlog, sentinels,
           recvlog, reportlog, marklog, aborted>>

\* ---- summarizejob()
VARIABLES
    job,            \* nodecount, walltime, has_any_archives,
                    \* has_enough_raw_archives, end_datetime, jobdir
    opts,           \* max_nodes, extractonly, dodelete, tag, force_timeout
    direxists,      \* os.path.exists(job.jobdir)
    rpc,            \* position in summarizejob()
    mdata,          \* the keys of mdata
    summarizeerror,
    mergeresult,
    missingnodes,   \* the number missingnodes holds
    missingfloat,   \* TRUE when missingnodes is a float (line 267)
    enough_nodes,
    success,
    force_success,
    now,            \* datetime.datetime.now() of line 312 (-1: not read)
    retval,         \* the value summarizejob() returned
    \* ---- calls made on the collaborators
    extractcalls,   \* calls of extract_and_merge_logs()
    processcalls,   \* calls of s.process()
    sink,           \* mdata as handed to m.process(s, mdata), one per call
    marked,         \* arguments of dblog.markasdone(), one record per call
    rmtrees,        \* calls of shutil.rmtree(job.jobdir)
    errhistory,     \* the values assigned to summarizeerror, in order
    raised          \* the calls that raised an exception, in order

rvars == <<job, opts, direxists, rpc, mdata, summarizeerror, mergeresult,
           missingnodes, missingfloat, enough_nodes, success, force_success,
           now, retval, extractcalls, processcalls, sink, marked, rmtrees,
           errhistory, raised>>

vars == <<pvars, rvars>>

\* numworkers = opts['threads']-1
numworkers == threads - 1

\* The ranks other than rank 0.
Workers == 1..numworkers

\* The k-th job the stream of resource r yields.
JobOf(r, k) == <<r, k>>

\* The job stream of the resource rank 0 is at: what the call
\* getjobs['cmd'](*(getjobs['opts'])) yields.
Stream == [k \in 1..njobs |-> JobOf(mres, k)]

\* The state at the entry of processjobs() on every rank.
PStart ==
    /\ mpc = "resources"
    /\ mres = 0
    /\ njobs = 0
    /\ spos = 0
    /\ numsent = 0
    /\ numreceived = 0
    /\ shutidx = 0
    /\ process = 0
    /\ tow = [w \in Workers |-> <<>>]
    /\ tom = [w \in Workers |-> <<>>]
    /\ wpc = [w \in Workers |-> "resources"]
    /\ wres = [w \in Workers |-> 0]
    /\ wjob = [w \in Workers |-> None]
    /\ sentlog = <<>>
    /\ sentinels = [w \in Workers |-> <<>>]
    /\ recvlog = [w \in Workers |-> <<>>]
    /\ reportlog = [w \in Workers |-> 0]
    /\ marklog = <<>>
    /\ aborted = [w \in Workers |-> <<>>]

\* main() refuses to run with fewer than 2 processes (line 513).
PInit ==
    /\ threads \in 2..(NumWorkers + 1)
    /\ matching \in SUBSET Resources
    /\ PStart

(***************************************************************************)
(* Rank 0.                                                                 *)
(***************************************************************************)

\* for r, resconf in config.resourceconfigs(): the filter, then the set-up
\* of one pass when the resource matches: the job stream is opened (it will
\* yield njobs jobs), numsent = 0, numreceived = 0.
MasterNextResource ==
    /\ mpc = "resources"
    /\ mres < NumResources
    /\ mres' = mres + 1
    /\ sentlog' = <<>>
    /\ IF (mres + 1) \in matching
         THEN /\ mpc' = "stream"
              /\ njobs' \in 0..MaxJobs
              /\ spos' = 0
              /\ numsent' = 0
              /\ numreceived' = 0
         ELSE /\ njobs' = 0
              /\ UNCHANGED <<mpc, spos, numsent, numreceived>>
    /\ marklog' = [k \in 1..njobs' |-> 0]
    /\ UNCHANGED rvars
    /\ UNCHANGED <<threads, reportlog, aborted>>
    /\ UNCHANGED <<matching, process, shutidx, tow, tom, wpc, wres, wjob,
                   sentinels, recvlog>>

\* The resource loop is exhausted: processjobs() returns on rank 0.
MasterFinish ==
    /\ mpc = "resources"
    /\ mres = NumResources
    /\ mpc' = "done"
    /\ UNCHANGED rvars
    /\ UNCHANGED <<threads, reportlog, marklog, aborted>>
    /\ UNCHANGED <<matching, njobs, process, mres, spos, numsent,
                   numreceived, shutidx, tow, tom, wpc, wres, wjob, sentlog,
                   sentinels, recvlog>>

\* dest=numsent+1 of the initial batch
FillDestLast == numworkers
FillDest == numsent + 1

\* The job the for loop of line 402 binds at this iteration.
StreamJobAgain == JobOf(mres, IF spos = 0 THEN 1 ELSE spos)
StreamJob == JobOf(mres, spos + 1)

\* Initial batch: comm.send(job, dest=numsent+1, tag=1)
MasterFill ==
    /\ mpc = "stream"
    /\ spos < njobs
    /\ ~(numsent >= numworkers)
    /\ tow' = [tow EXCEPT ![FillDest] = Append(@, StreamJob)]
    /\ sentlog' = Append(sentlog, <<StreamJob, FillDest>>)
    /\ numsent' = numsent + 1
    /\ spos' = spos + 1
    /\ UNCHANGED rvars
    /\ UNCHANGED <<threads, reportlog, marklog, aborted>>
    /\ UNCHANGED <<matching, njobs, process, mpc, mres, numreceived, shutidx,
                   tom, wpc, wres, wjob, sentinels, recvlog>>

\* Steady state, lines 421-422: process = comm.recv(source=MPI.ANY_SOURCE,
\* tag=1); numreceived += 1.  The receive blocks until a report is in
\* flight and takes the oldest report of any worker that has one.
MasterSteadyRecv ==
    /\ mpc = "stream"
    /\ spos < njobs
    /\ numsent >= numworkers
    /\ \E w \in Workers :
         /\ tom[w] # <<>>
         /\ process' = Head(tom[w])
         /\ tom' = [tom EXCEPT ![w] = Tail(@)]
    /\ numreceived' = numreceived + 1
    /\ mpc' = "send"
    /\ UNCHANGED rvars
    /\ UNCHANGED <<threads, reportlog, marklog, aborted>>
    /\ UNCHANGED <<matching, njobs, mres, spos, numsent, shutidx, tow, wpc,
                   wres, wjob, sentlog, sentinels, recvlog>>

\* Steady state, lines 423-424: comm.send(job, dest=process, tag=1);
\* numsent += 1.
MasterSteadySend ==
    /\ mpc = "send"
    /\ tow' = [tow EXCEPT ![process] = Append(@, StreamJob)]
    /\ sentlog' = Append(sentlog, <<StreamJob, process>>)
    /\ numsent' = numsent + 1
    /\ spos' = spos + 1
    /\ mpc' = "stream"
    /\ UNCHANGED rvars
    /\ UNCHANGED <<threads, reportlog, marklog, aborted>>
    /\ UNCHANGED <<matching, njobs, mres, numreceived, shutidx, process, tom,
                   wpc, wres, wjob, sentinels, recvlog>>

\* The stream is exhausted: the for loop of line 402 ends.
MasterStreamEnd ==
    /\ mpc = "stream"
    /\ spos = njobs
    /\ mpc' = "drain"
    /\ UNCHANGED rvars
    /\ UNCHANGED <<threads, reportlog, marklog, aborted>>
    /\ UNCHANGED <<matching, njobs, process, mres, spos, numsent,
                   numreceived, shutidx, tow, tom, wpc, wres, wjob, sentlog,
                   sentinels, recvlog>>

\* while numsent > numreceived
DrainPendingOffByOne == numsent > numreceived + 1
DrainPending == numsent > numreceived

\* Get leftover results: one iteration of the loop of line 435.
MasterDrain ==
    /\ mpc = "drain"
    /\ DrainPending
    /\ \E w \in Workers :
         /\ tom[w] # <<>>
         /\ tom' = [tom EXCEPT ![w] = Tail(@)]
    /\ numreceived' = numreceived + 1
    /\ UNCHANGED rvars
    /\ UNCHANGED <<threads, reportlog, marklog, aborted>>
    /\ UNCHANGED <<matching, njobs, process, mpc, mres, spos, numsent,
                   shutidx, tow, wpc, wres, wjob, sentlog, sentinels, recvlog>>

\* The loop of line 435 ends; the loop of line 441 starts.
MasterDrainEnd ==
    /\ mpc = "drain"
    /\ ~DrainPending
    /\ mpc' = "shutdown"
    /\ shutidx' = 0
    /\ UNCHANGED rvars
    /\ UNCHANGED <<threads, reportlog, marklog, aborted>>
    /\ UNCHANGED <<matching, njobs, process, mres, spos, numsent,
                   numreceived, tow, tom, wpc, wres, wjob, sentlog,
                   sentinels, recvlog>>

\* for worker in xrange(numworkers)
ShutdownRangeShort == 0..(numworkers - 2)
ShutdownRange == 0..(numworkers - 1)

\* Shut them down: comm.send(None, dest=worker+1, tag=1)
MasterShutdown ==
    /\ mpc = "shutdown"
    /\ shutidx \in ShutdownRange
    /\ tow' = [tow EXCEPT ![shutidx + 1] = Append(@, None)]
    /\ sentinels' = [sentinels EXCEPT ![shutidx + 1] = Append(@, mres)]
    /\ shutidx' = shutidx + 1
    /\ UNCHANGED rvars
    /\ UNCHANGED <<threads, reportlog, marklog, aborted>>
    /\ UNCHANGED <<matching, njobs, process, mpc, mres, spos, numsent,
                   numreceived, tom, wpc, wres, wjob, sentlog, recvlog>>

\* The loop of line 441 ends: back to the resource loop.
MasterShutdownEnd ==
    /\ mpc = "shutdown"
    /\ shutidx \notin ShutdownRange
    /\ mpc' = "resources"
    /\ UNCHANGED rvars
    /\ UNCHANGED <<threads, reportlog, marklog, aborted>>
    /\ UNCHANGED <<matching, njobs, process, mres, spos, numsent,
                   numreceived, shutidx, tow, tom, wpc, wres, wjob, sentlog,
                   sentinels, recvlog>>

(***************************************************************************)
(* The exceptions of summarizejob(), as its caller sees them.              *)
(***************************************************************************)

\* The calls of the try block (lines 208-317) that may raise: the archive
\* queries of the classification chain, extract_and_merge_logs(), the
\* constructors of lines 273-275, s.process(), m.process(), s.good_enough()
\* and dblog.markasdone().
TryStages == {"classify", "extract", "construct", "process", "sink",
              "good_enough", "markasdone"}

\* shutil.rmtree() of line 324 is called after the try statement.
Stages == TryStages \cup {"rmtree"}

\* except Exception (line 319) handles what the try block raises.
ContainedBeforeLogging(stage) == stage \in TryStages \ {"markasdone"}
Contained(stage) == stage \in TryStages

\* Where control goes when the call of the given stage raises.
RaiseTo(stage) == IF Contained(stage) THEN "except" ELSE "propagated"

\* The exceptions one call of summarizejob() can meet, in order: none, one
\* in the try block, one in the clean-up (which runs only when
\* opts['dodelete'] is set), or both.
RaiseRuns(dodelete) ==
    {<<>>} \cup {<<st>> : st \in TryStages}
      \cup (IF dodelete
              THEN {<<"rmtree">>} \cup {<<st, "rmtree">> : st \in TryStages}
              ELSE {})

\* The exception summarizejob() lets through to its caller, None if the
\* call returns.
Propagated(rs) ==
    IF \E i \in 1..Len(rs) : ~Contained(rs[i])
      THEN rs[CHOOSE i \in 1..Len(rs) : ~Contained(rs[i])]
      ELSE None

\* The number of dblog.markasdone() calls of one call of summarizejob():
\* line 317 is reached unless line 271 returned or an earlier call raised.
MarkasdoneCallsInExcept(rs, extractonly) ==
    IF extractonly \/ (rs # <<>> /\ rs[1] \notin {"markasdone", "rmtree"})
      THEN 0
      ELSE IF rs # <<>> /\ rs[1] = "markasdone" THEN 2 ELSE 1
MarkasdoneCalls(rs, extractonly) ==
    IF extractonly \/ (rs # <<>> /\ rs[1] \notin {"markasdone", "rmtree"})
      THEN 0
      ELSE 1

(***************************************************************************)
(* Rank w >= 1.                                                            *)
(***************************************************************************)

\* for r, resconf in config.resourceconfigs(): the same filter on rank w.
WorkerNextResource(w) ==
    /\ wpc[w] = "resources"
    /\ wres[w] < NumResources
    /\ wres' = [wres EXCEPT ![w] = @ + 1]
    /\ recvlog' = [recvlog EXCEPT ![w] = <<>>]
    /\ reportlog' = [reportlog EXCEPT ![w] = 0]
    /\ wpc' = [wpc EXCEPT ![w] =
                 IF (wres[w] + 1) \in matching THEN "waiting" ELSE "resources"]
    /\ UNCHANGED rvars
    /\ UNCHANGED <<threads, marklog, aborted>>
    /\ UNCHANGED <<matching, njobs, process, mpc, mres, spos, numsent,
                   numreceived, shutidx, tow, tom, wjob, sentlog, sentinels>>

\* The resource loop is exhausted: processjobs() returns on rank w.
WorkerFinish(w) ==
    /\ wpc[w] = "resources"
    /\ wres[w] = NumResources
    /\ wpc' = [wpc EXCEPT ![w] = "done"]
    /\ UNCHANGED rvars
    /\ UNCHANGED <<threads, reportlog, marklog, aborted>>
    /\ UNCHANGED <<matching, njobs, process, mpc, mres, spos, numsent,
                   numreceived, shutidx, tow, tom, wres, wjob, sentlog,
                   sentinels, recvlog>>

\* comm.Iprobe(source=0, tag=1) is true, job = comm.recv(source=0, tag=1),
\* and job != None: the worker starts summarizejob().
WorkerRecvJob(w) ==
    /\ wpc[w] = "waiting"
    /\ tow[w] # <<>>
    /\ Head(tow[w]) # None
    /\ tow' = [tow EXCEPT ![w] = Tail(@)]
    /\ wjob' = [wjob EXCEPT ![w] = Head(tow[w])]
    /\ recvlog' = [recvlog EXCEPT ![w] = Append(@, <<Head(tow[w]), wres[w]>>)]
    /\ wpc' = [wpc EXCEPT ![w] = "processing"]
    /\ UNCHANGED rvars
    /\ UNCHANGED <<threads, reportlog, marklog, aborted>>
    /\ UNCHANGED <<matching, njobs, process, mpc, mres, spos, numsent,
                   numreceived, shutidx, tom, wres, sentlog, sentinels>>

\* comm.send(procid, dest=0, tag=1): the queue to rank 0 after the send.
SendReportTwice(q, w) == Append(Append(q, w), w)
SendReport(q, w) == Append(q, w)

\* Lines 470-473: summarizejob() returned (after no exception, or after
\* exceptions it contained); the worker sends the completion report
\* comm.send(procid, dest=0, tag=1).
WorkerReport(w) ==
    /\ wpc[w] = "processing"
    /\ \E rs \in RaiseRuns(opts.dodelete) :
         /\ Propagated(rs) = None
         /\ marklog' = [marklog EXCEPT ![wjob[w][2]] =
                          @ + MarkasdoneCalls(rs, opts.extractonly)]
    /\ tom' = [tom EXCEPT ![w] = SendReport(@, w)]
    /\ reportlog' = [reportlog EXCEPT ![w] = @ + 1]
    /\ wjob' = [wjob EXCEPT ![w] = None]
    /\ wpc' = [wpc EXCEPT ![w] = "waiting"]
    /\ UNCHANGED rvars
    /\ UNCHANGED <<threads, aborted>>
    /\ UNCHANGED <<matching, njobs, process, mpc, mres, spos, numsent,
                   numreceived, shutidx, tow, wres, sentlog, sentinels,
                   recvlog>>

\* Line 470: summarizejob() lets an exception through.  Nothing in the
\* worker loop handles it: the exception ends processjobs() on rank w, which
\* sends no report for the job and never receives again.
WorkerAbort(w) ==
    /\ wpc[w] = "processing"
    /\ \E rs \in RaiseRuns(opts.dodelete) :
         /\ Propagated(rs) # None
         /\ marklog' = [marklog EXCEPT ![wjob[w][2]] =
                          @ + MarkasdoneCalls(rs, opts.extractonly)]
         /\ aborted' = [aborted EXCEPT ![w] = <<Propagated(rs)>>]
    /\ wpc' = [wpc EXCEPT ![w] = "aborted"]
    /\ UNCHANGED rvars
    /\ UNCHANGED <<threads, reportlog>>
    /\ UNCHANGED <<matching, njobs, process, mpc, mres, spos, numsent,
                   numreceived, shutidx, tow, tom, wres, wjob, sentlog,
                   sentinels, recvlog>>

\* job == None: got shutdown message, break; the worker leaves the pass.
WorkerRecvShutdown(w) ==
    /\ wpc[w] = "waiting"
    /\ tow[w] # <<>>
    /\ Head(tow[w]) = None
    /\ tow' = [tow EXCEPT ![w] = Tail(@)]
    /\ wpc' = [wpc EXCEPT ![w] = "resources"]
    /\ UNCHANGED rvars
    /\ UNCHANGED <<threads, reportlog, marklog, aborted>>
    /\ UNCHANGED <<matching, njobs, process, mpc, mres, spos, numsent,
                   numreceived, shutidx, tom, wres, wjob, sentlog, sentinels,
                   recvlog>>

Master ==
    \/ MasterNextResource
    \/ MasterFinish
    \/ MasterFill
    \/ MasterSteadyRecv
    \/ MasterSteadySend
    \/ MasterStreamEnd
    \/ MasterDrain
    \/ MasterDrainEnd
    \/ MasterShutdown
    \/ MasterShutdownEnd

\* The worker loop as long as every call of summarizejob() returns.
WorkerLoop(w) ==
    \/ WorkerNextResource(w)
    \/ WorkerFinish(w)
    \/ WorkerRecvJob(w)
    \/ WorkerReport(w)
    \/ WorkerRecvShutdown(w)

Worker(w) ==
    \/ WorkerLoop(w)
    \/ WorkerAbort(w)

PNext == Master \/ \E w \in Workers : Worker(w)

(***************************************************************************)
(* summarizejob(job, conf, resconf, plugins, preprocs, m, dblog, opts)     *)
(***************************************************************************)

\* Bounds of the runner model: extract_and_merge_logs() returns an integer
\* of -MaxMissing..MaxMerge.
MaxMissing == 3
MaxMerge == 1

\* Thresholds written in the classification chain.
ParallelShortSecs == 300
ShortSecs == 180
LongSecs == 176400
\* mergeresult of a job that is skipped.
SkipMergeResult == 1
\* default of opts['force_timeout'] (2 * 24 * 3600)
DefaultForceTimeout == 172800

\* The job attributes and options the runs are drawn from.
NodecountValues == {-1, 0, 1, 2, 4, 8, 20, 21, 40}
WalltimeValues == {100, 180, 181, 299, 300, 3600, 176399, 176400}
EndValues == {1000}
ElapsedValues == {0, 172799, 172800, 172801, 4320000}
MaxNodesValues == {0, 8}
ForceTimeoutValues == {DefaultForceTimeout}
TagValues == {None, "tag"}
MergeResults == (0 - MaxMissing)..MaxMerge

\* ProcessingError
PARALLEL_TOO_SHORT == "PARALLEL_TOO_SHORT"
TIME_TOO_SHORT == "TIME_TOO_SHORT"
INVALID_NODECOUNT == "INVALID_NODECOUNT"
NO_ARCHIVES == "NO_ARCHIVES"
RAW_ARCHIVES == "RAW_ARCHIVES"
JOB_TOO_BIG == "JOB_TOO_BIG"
TIME_TOO_LONG == "TIME_TOO_LONG"
PMLOGEXTRACT_ERROR == "PMLOGEXTRACT_ERROR"
SUMMARIZATION_ERROR == "SUMMARIZATION_ERROR"

SkipReasons == {PARALLEL_TOO_SHORT, TIME_TOO_SHORT, INVALID_NODECOUNT,
                NO_ARCHIVES, RAW_ARCHIVES, JOB_TOO_BIG, TIME_TOO_LONG}

Jobs == [nodecount : NodecountValues, walltime : WalltimeValues,
         has_any_archives : BOOLEAN, has_enough_raw_archives : BOOLEAN,
         end_datetime : EndValues, jobdir : {None, "jobdir"}]

\* The options as the command line gives them (--max-nodes, --extract-only,
\* --delete, --tag, --timeout) before lines 159-161.
GivenOptions == [max_nodes : MaxNodesValues, extractonly : BOOLEAN,
                 dodelete : BOOLEAN, tag : TagValues,
                 force_timeout : ForceTimeoutValues]

\* The defaults of lines 73-88.
DefaultOptions == [max_nodes |-> 0, extractonly |-> FALSE, dodelete |-> TRUE,
                   tag |-> None, force_timeout |-> DefaultForceTimeout]

\* Lines 159-161: extract-only supresses archive delete.
GetOptionsKeepDelete(o) == o
GetOptions(o) == IF o.extractonly THEN [o EXCEPT !.dodelete = FALSE] ELSE o

\* What getoptions() returns.
Options == {GetOptions(o) : o \in GivenOptions}

\* The state at the entry of summarizejob(): success = False.  mergeresult,
\* missingnodes and the return value are not bound yet: they hold 0, 0 and
\* FALSE until their first assignment and are not read before it.
RStart ==
    /\ rpc = "classify"
    /\ mdata = {}
    /\ summarizeerror = None
    /\ mergeresult = 0
    /\ missingnodes = 0
    /\ missingfloat = FALSE
    /\ enough_nodes = FALSE
    /\ success = FALSE
    /\ force_success = FALSE
    /\ now = -1
    /\ retval = FALSE
    /\ extractcalls = 0
    /\ processcalls = 0
    /\ sink = <<>>
    /\ marked = <<>>
    /\ rmtrees = 0
    /\ errhistory = <<>>
    /\ raised = <<>>

RInit ==
    /\ job \in Jobs
    /\ opts \in Options
    /\ direxists \in BOOLEAN
    /\ (job.jobdir = None => ~direxists)
    /\ RStart

\* The if/elif chain of lines 222-264: the reason of the first branch taken,
\* None when the else branch (extraction) is taken.
SkipReasonShortFirst(j, o) ==
    IF j.walltime <= ShortSecs THEN TIME_TOO_SHORT
    ELSE IF j.nodecount > 1 /\ j.walltime < ParallelShortSecs
      THEN PARALLEL_TOO_SHORT
    ELSE IF j.nodecount < 1 THEN INVALID_NODECOUNT
    ELSE IF ~j.has_any_archives THEN NO_ARCHIVES
    ELSE IF ~j.has_enough_raw_archives THEN RAW_ARCHIVES
    ELSE IF o.max_nodes > 0 /\ j.nodecount > o.max_nodes THEN JOB_TOO_BIG
    ELSE IF j.walltime >= LongSecs THEN TIME_TOO_LONG
    ELSE None

SkipReason(j, o) ==
    IF j.nodecount > 1 /\ j.walltime < ParallelShortSecs
      THEN PARALLEL_TOO_SHORT
    ELSE IF j.walltime <= ShortSecs THEN TIME_TOO_SHORT
    ELSE IF j.nodecount < 1 THEN INVALID_NODECOUNT
    ELSE IF ~j.has_any_archives THEN NO_ARCHIVES
    ELSE IF ~j.has_enough_raw_archives THEN RAW_ARCHIVES
    ELSE IF o.max_nodes > 0 /\ j.nodecount > o.max_nodes THEN JOB_TOO_BIG
    ELSE IF j.walltime >= LongSecs THEN TIME_TOO_LONG
    ELSE None

\* The mdata key each branch sets.
SkipFlag(reason) ==
    CASE reason = PARALLEL_TOO_SHORT -> "skipped_parallel_too_short"
      [] reason = TIME_TOO_SHORT -> "skipped_too_short"
      [] reason = INVALID_NODECOUNT -> "skipped_invalid_nodecount"
      [] reason = NO_ARCHIVES -> "skipped_noarchives"
      [] reason = RAW_ARCHIVES -> "skipped_rawarchives"
      [] reason = JOB_TOO_BIG -> "skipped_job_too_big"
      [] reason = TIME_TOO_LONG -> "skipped_too_long"
      [] reason = PMLOGEXTRACT_ERROR -> "skipped_pmlogextract_error"
      [] reason = SUMMARIZATION_ERROR -> "skipped_summarization_error"

\* Whether evaluating the chain up to the branch taken calls
\* job.has_any_archives() or job.has_enough_raw_archives(), which may raise.
ChainCallsJob(j) ==
    /\ ~(j.nodecount > 1 /\ j.walltime < ParallelShortSecs)
    /\ ~(j.walltime <= ShortSecs)
    /\ ~(j.nodecount < 1)

\* Python 2 a / b on two ints: the floor of the quotient.
FloorDiv(a, b) == IF b > 0 THEN a \div b ELSE (0 - a) \div (0 - b)

\* missingnodes / job.nodecount < 0.05, for n # 0.  On a float missingnodes
\* the quotient is the true quotient (the double nearest to m/n, which is
\* below the double 0.05 exactly when m/n < 1/20 for counts of this size);
\* on an int missingnodes it is the floor of the quotient.
RatioBelowInclusive(m, isfloat, n) ==
    IF isfloat
      THEN IF n > 0 THEN 20 * m <= n ELSE 20 * m >= n
      ELSE 20 * FloorDiv(m, n) <= 1

RatioBelow(m, isfloat, n) ==
    IF isfloat
      THEN IF n > 0 THEN 20 * m < n ELSE 20 * m > n
      ELSE 20 * FloorDiv(m, n) < 1

\* The condition of line 279.
EnoughNodes(mr, m, isfloat, n) ==
    mr = 0 \/ (n # 0 /\ RatioBelow(m, isfloat, n))

\* The condition of line 283.
ExtractError(err, m, isfloat, n) ==
    err = None /\ n # 0 /\ ~RatioBelow(m, isfloat, n)

\* (datetime.datetime.now() - job.end_datetime) >
\*     datetime.timedelta(seconds=force_timeout)
GraceElapsedInclusive(t, end, timeout) == (t - end) >= timeout
GraceElapsed(t, end, timeout) == (t - end) > timeout

(***************************************************************************)
(* The statements of summarizejob().  A call on a collaborator either      *)
(* returns or raises; a raise inside the try block leads to the except     *)
(* clause of line 319, a raise outside it leaves summarizejob().           *)
(***************************************************************************)

\* Lines 217-264: the classification chain.  has_any_archives() and
\* has_enough_raw_archives() are calls and may raise.
RClassify ==
    /\ rpc = "classify"
    /\ \E raise \in BOOLEAN :
         LET reason == SkipReason(job, opts) IN
           IF raise
             THEN /\ ChainCallsJob(job)
                  /\ rpc' = RaiseTo("classify")
                  /\ raised' = Append(raised, "classify")
                  /\ UNCHANGED <<mdata, summarizeerror, mergeresult,
                                 missingnodes, missingfloat, errhistory>>
             ELSE IF reason # None
               THEN /\ mergeresult' = SkipMergeResult
                    /\ mdata' = mdata \cup {SkipFlag(reason)}
                    /\ summarizeerror' = reason
                    /\ errhistory' = Append(errhistory, reason)
                    /\ missingnodes' = job.nodecount
                    /\ missingfloat' = FALSE
                    /\ rpc' = "extractonly"
                    /\ UNCHANGED raised
               ELSE /\ rpc' = "extract"
                    /\ UNCHANGED <<mdata, summarizeerror, mergeresult,
                                   missingnodes, missingfloat, errhistory,
                                   raised>>
    /\ UNCHANGED <<job, opts, direxists, enough_nodes, success, force_success,
                   now, retval, extractcalls, processcalls, sink, marked,
                   rmtrees>>
    /\ UNCHANGED pvars

\* Line 267: missingnodes = -1.0 * mergeresult.
MissingNodesAbs(mr) == IF mr < 0 THEN 0 - mr ELSE mr
MissingNodes(mr) == 0 - mr

\* Lines 266-267: mergeresult = extract_and_merge_logs(...),
\* missingnodes = -1.0 * mergeresult.
RExtract ==
    /\ rpc = "extract"
    /\ extractcalls' = extractcalls + 1
    /\ \E raise \in BOOLEAN, mr \in MergeResults :
         IF raise
           THEN /\ rpc' = RaiseTo("extract")
                /\ raised' = Append(raised, "extract")
                /\ UNCHANGED <<mergeresult, missingnodes, missingfloat>>
           ELSE /\ mergeresult' = mr
                /\ missingnodes' = MissingNodes(mr)
                /\ missingfloat' = TRUE
                /\ rpc' = "extractonly"
                /\ UNCHANGED raised
    /\ UNCHANGED <<job, opts, direxists, mdata, summarizeerror, enough_nodes,
                   success, force_success, now, retval, processcalls, sink,
                   marked, rmtrees, errhistory>>
    /\ UNCHANGED pvars

\* Lines 270-271: if opts['extractonly']: return 0 == mergeresult.
RExtractOnly ==
    /\ rpc = "extractonly"
    /\ opts.extractonly
    /\ retval' = (0 = mergeresult)
    /\ rpc' = "returned"
    /\ UNCHANGED raised
    /\ UNCHANGED <<job, opts, direxists, mdata, summarizeerror, mergeresult,
                   missingnodes, missingfloat, enough_nodes, success,
                   force_success, now, extractcalls, processcalls, sink,
                   marked, rmtrees, errhistory>>
    /\ UNCHANGED pvars

\* Lines 273-277: the preprocessors, the plugins and Summarize are
\* constructed (a constructor may raise); enough_nodes=False.
RConstruct ==
    /\ rpc = "extractonly"
    /\ ~opts.extractonly
    /\ \E raise \in BOOLEAN :
         IF raise
           THEN /\ rpc' = RaiseTo("construct")
                /\ raised' = Append(raised, "construct")
           ELSE /\ rpc' = "enough"
                /\ UNCHANGED raised
    /\ enough_nodes' = FALSE
    /\ UNCHANGED <<job, opts, direxists, mdata, summarizeerror, mergeresult,
                   missingnodes, missingfloat, success, force_success, now,
                   retval, extractcalls, processcalls, sink, marked, rmtrees,
                   errhistory>>
    /\ UNCHANGED pvars

\* Lines 279-288: enough nodes and s.process(), or PMLOGEXTRACT_ERROR, or
\* neither.
REnough ==
    /\ rpc = "enough"
    /\ IF EnoughNodes(mergeresult, missingnodes, missingfloat, job.nodecount)
         THEN /\ enough_nodes' = TRUE
              /\ processcalls' = processcalls + 1
              /\ \E raise \in BOOLEAN :
                   IF raise
                     THEN /\ rpc' = RaiseTo("process")
                          /\ raised' = Append(raised, "process")
                     ELSE /\ rpc' = "mdata"
                          /\ UNCHANGED raised
              /\ UNCHANGED <<mdata, summarizeerror, errhistory>>
         ELSE IF ExtractError(summarizeerror, missingnodes, missingfloat,
                              job.nodecount)
           THEN /\ mdata' = mdata \cup {SkipFlag(PMLOGEXTRACT_ERROR)}
                /\ summarizeerror' = PMLOGEXTRACT_ERROR
                /\ errhistory' = Append(errhistory, PMLOGEXTRACT_ERROR)
                /\ rpc' = "mdata"
                /\ UNCHANGED <<enough_nodes, processcalls, raised>>
           ELSE /\ rpc' = "mdata"
                /\ UNCHANGED <<mdata, summarizeerror, errhistory,
                               enough_nodes, processcalls, raised>>
    /\ UNCHANGED <<job, opts, direxists, mergeresult, missingnodes,
                   missingfloat, success, force_success, now, retval,
                   extractcalls, sink, marked, rmtrees>>
    /\ UNCHANGED pvars

\* The keys lines 290-296 add to mdata.
LateKeys(tag, m) ==
    {"mergetime"}
      \cup (IF tag # None THEN {"tag"} ELSE {})
      \cup (IF m > 0 THEN {"missingnodes"} ELSE {})

\* Lines 290-298: mergetime, tag, missingnodes, then m.process(s, mdata).
RMdata ==
    /\ rpc = "mdata"
    /\ mdata' = mdata \cup LateKeys(opts.tag, missingnodes)
    /\ sink' = Append(sink, mdata')
    /\ \E raise \in BOOLEAN :
         IF raise
           THEN /\ rpc' = RaiseTo("sink")
                /\ raised' = Append(raised, "sink")
           ELSE /\ rpc' = "evaluate"
                /\ UNCHANGED raised
    /\ UNCHANGED <<job, opts, direxists, summarizeerror, mergeresult,
                   missingnodes, missingfloat, enough_nodes, success,
                   force_success, now, retval, extractcalls, processcalls,
                   marked, rmtrees, errhistory>>
    /\ UNCHANGED pvars

\* The condition of line 302.
SummarizationFailedAnyNodes(ok, enough) == ~ok
SummarizationFailedInverted(ok, enough) == ok /\ enough
SummarizationFailed(ok, enough) == ~ok /\ enough

\* Lines 300-307: success = s.good_enough(), then SUMMARIZATION_ERROR.
REvaluate ==
    /\ rpc = "evaluate"
    /\ \E raise \in BOOLEAN, good_enough \in BOOLEAN :
         IF raise
           THEN /\ rpc' = RaiseTo("good_enough")
                /\ raised' = Append(raised, "good_enough")
                /\ UNCHANGED <<success, mdata, summarizeerror, errhistory>>
           ELSE /\ success' = good_enough
                /\ rpc' = "mark"
                /\ UNCHANGED raised
                /\ IF SummarizationFailed(good_enough, enough_nodes)
                     THEN /\ mdata' = mdata
                                \cup {SkipFlag(SUMMARIZATION_ERROR)}
                          /\ summarizeerror' = SUMMARIZATION_ERROR
                          /\ errhistory' =
                               Append(errhistory, SUMMARIZATION_ERROR)
                     ELSE UNCHANGED <<mdata, summarizeerror, errhistory>>
    /\ UNCHANGED <<job, opts, direxists, mergeresult, missingnodes,
                   missingfloat, enough_nodes, force_success, now, retval,
                   extractcalls, processcalls, sink, marked, rmtrees>>
    /\ UNCHANGED pvars

\* The error code line 317 passes (line 315 is commented out: the override
\* leaves summarizeerror as it is).
MarkedError(err, forced) == err

\* Lines 309-317: the grace period, then dblog.markasdone(job,
\* success or force_success, ..., summarizeerror).  The clock is read only
\* when success is false.
RMark ==
    /\ rpc = "mark"
    /\ \E t \in {job.end_datetime + d : d \in ElapsedValues} :
         /\ now' = IF ~success THEN t ELSE now
         /\ force_success' =
              (~success /\ GraceElapsed(t, job.end_datetime,
                                        opts.force_timeout))
    /\ marked' = Append(marked,
                        [success |-> (success \/ force_success'),
                         errorcode |-> MarkedError(summarizeerror,
                                                   force_success')])
    /\ \E raise \in BOOLEAN :
         IF raise
           THEN /\ rpc' = RaiseTo("markasdone")
                /\ raised' = Append(raised, "markasdone")
           ELSE /\ rpc' = "cleanup"
                /\ UNCHANGED raised
    /\ UNCHANGED <<job, opts, direxists, mdata, summarizeerror, mergeresult,
                   missingnodes, missingfloat, enough_nodes, success, retval,
                   extractcalls, processcalls, sink, rmtrees, errhistory>>
    /\ UNCHANGED pvars

\* Lines 319-320: except Exception as e: logging.error(...)
RExcept ==
    /\ rpc = "except"
    /\ rpc' = "cleanup"
    /\ UNCHANGED raised
    /\ UNCHANGED <<job, opts, direxists, mdata, summarizeerror, mergeresult,
                   missingnodes, missingfloat, enough_nodes, success,
                   force_success, now, retval, extractcalls, processcalls,
                   sink, marked, rmtrees, errhistory>>
    /\ UNCHANGED pvars

\* The condition of line 322.
DoCleanupAlways(dodelete, jobdir, exists) == jobdir # None /\ exists
DoCleanup(dodelete, jobdir, exists) == dodelete /\ jobdir # None /\ exists

\* Lines 322-326: the clean-up, then return success.  shutil.rmtree() may
\* raise; nothing handles that here, so the exception leaves summarizejob()
\* and the tree may or may not be there any more.
RCleanup ==
    /\ rpc = "cleanup"
    /\ IF DoCleanup(opts.dodelete, job.jobdir, direxists)
         THEN /\ rmtrees' = rmtrees + 1
              /\ \E raise \in BOOLEAN :
                   IF raise
                     THEN /\ direxists' \in BOOLEAN
                          /\ rpc' = RaiseTo("rmtree")
                          /\ raised' = Append(raised, "rmtree")
                          /\ UNCHANGED retval
                     ELSE /\ direxists' = FALSE
                          /\ rpc' = "returned"
                          /\ retval' = success
                          /\ UNCHANGED raised
         ELSE /\ rpc' = "returned"
              /\ retval' = success
              /\ UNCHANGED <<rmtrees, direxists, raised>>
    /\ UNCHANGED <<job, opts, mdata, summarizeerror, mergeresult,
                   missingnodes, missingfloat, enough_nodes, success,
                   force_success, now, extractcalls, processcalls, sink,
                   marked, errhistory>>
    /\ UNCHANGED pvars

RNext ==
    \/ RClassify
    \/ RExtract
    \/ RExtractOnly
    \/ RConstruct
    \/ REnough
    \/ RMdata
    \/ REvaluate
    \/ RMark
    \/ RExcept
    \/ RCleanup

(***************************************************************************)
(* The two specifications.  Each leaves the other machine at rest.         *)
(***************************************************************************)

\* No call of summarizejob() is in progress.
RRest ==
    /\ job = [nodecount |-> 1, walltime |-> 3600, has_any_archives |-> TRUE,
              has_enough_raw_archives |-> TRUE, end_datetime |-> 0,
              jobdir |-> None]
    /\ opts = GetOptions(DefaultOptions)
    /\ direxists = FALSE
    /\ RStart

\* processjobs() has not started: no resource is configured to match.
PRest ==
    /\ threads = 2
    /\ matching = {}
    /\ PStart

Init == PInit /\ RRest

Next == PNext

Spec == Init /\ [][Next]_vars

\* The protocol when every call of summarizejob() returns.
FairNext == Master \/ \E w \in Workers : WorkerLoop(w)

\* Every rank keeps running: rank 0 blocks in comm.recv() until a report is
\* there, a worker polls comm.Iprobe() until a message is there (lines
\* 453-462), and a message stays in its queue until its one receiver takes
\* it.  So a step that can be taken stays possible until some rank takes a
\* step, and the ranks do not all stop while one of them can go on.
FairSpec ==
    /\ Init
    /\ [][FairNext]_vars
    /\ WF_vars(FairNext)

RunnerInit == RInit /\ PRest

RunnerNext == RNext

RunnerSpec == RunnerInit /\ [][RunnerNext]_vars

(***************************************************************************)
(* Properties of the protocol (specification Spec).                        *)
(***************************************************************************)

\* The jobs of the job messages rank 0 sent, in the order it sent them.
JobsSent == [i \in 1..Len(sentlog) |-> sentlog[i][1]]

IsPrefix(s, t) == Len(s) <= Len(t) /\ s = SubSeq(t, 1, Len(s))

\* The deliveries of job j: the pairs <<w, i>> with recvlog[w][i] about j.
Deliveries(j) ==
    {d \in Workers \X (1..MaxJobs) :
       d[2] <= Len(recvlog[d[1]]) /\ recvlog[d[1]][d[2]][1] = j}

\* C1: in the pass over one job stream the job messages rank 0 sends are the
\* jobs the stream yields, in the order they are yielded, none sent twice
\* and none left out once the stream is exhausted; every job a worker
\* received was sent to that worker, and no job is delivered twice (to two
\* workers, or twice to one).
C1_SentInStreamOrder ==
    /\ IsPrefix(JobsSent, Stream)
    /\ (mpc \in {"drain", "shutdown", "resources", "done"} =>
          JobsSent = Stream)
    /\ \A i, k \in 1..Len(sentlog) :
         sentlog[i][1] = sentlog[k][1] => i = k
    /\ \A w \in Workers : \A i \in 1..Len(recvlog[w]) :
         wres[w] = mres =>
           \E k \in 1..Len(sentlog) : sentlog[k] = <<recvlog[w][i][1], w>>
    /\ \A k \in 1..Len(sentlog) : Cardinality(Deliveries(sentlog[k][1])) <= 1

\* C1, witness: the stream of the second matching resource had more jobs
\* than there are workers, all of them were sent, and every worker received
\* one of them.
C1_Witness ==
    /\ mpc = "shutdown"
    /\ matching = Resources
    /\ mres = 2
    /\ njobs > NumWorkers
    /\ Len(sentlog) = njobs
    /\ \A w \in Workers : recvlog[w] # <<>> /\ wres[w] = mres

\* The jobs rank w has been sent and has not reported as complete.
Outstanding(w) ==
    Cardinality({i \in 1..Len(tow[w]) : tow[w][i] # None})
      + (IF wjob[w] # None THEN 1 ELSE 0)

\* C2: numreceived <= numsent in every state; when the drain loop has ended
\* (the shutdown loop is running, the first sentinel about to be sent or
\* sent), numsent = numreceived, no worker holds or is about to receive a
\* job, and no completion report is in flight.
C2_DrainedBeforeShutdown ==
    /\ numreceived <= numsent
    /\ mpc = "shutdown" =>
         /\ numsent = numreceived
         /\ \A w \in Workers : Outstanding(w) = 0 /\ tom[w] = <<>>

\* C2, witness: the drain loop ends after a pass with more jobs than
\* workers, before the first sentinel is sent.
C2_Witness ==
    /\ mpc = "shutdown"
    /\ shutidx = 0
    /\ numsent > NumWorkers
    /\ numsent = numreceived

\* The resources at which a sentinel was sent to worker w.
SentinelResources(w) == {sentinels[w][i] : i \in 1..Len(sentinels[w])}

\* C3, as claimed: over the whole run of processjobs() on rank 0 (a run in
\* which some resource matches) each worker is sent exactly one sentinel,
\* whatever number of resources match: never a second one, and one by the
\* time rank 0 is done.
C3_OneSentinelPerRun ==
    \A w \in Workers :
      /\ Len(sentinels[w]) <= 1
      /\ (mpc = "done" /\ matching # {} => Len(sentinels[w]) = 1)

\* C3, amended: each worker is sent exactly one sentinel per matching
\* resource: never two for the same resource, none for a resource that does
\* not match, and once rank 0 has left a resource (and at the end of the
\* run) one for every matching resource up to it, also for a worker that
\* received no job.
C3_OneSentinelPerPass ==
    \A w \in Workers :
      /\ \A i, k \in 1..Len(sentinels[w]) :
           i < k => sentinels[w][i] < sentinels[w][k]
      /\ SentinelResources(w) \subseteq matching
      /\ (mpc \in {"resources", "done"} =>
            SentinelResources(w) = {r \in matching : r <= mres})
      /\ (mpc = "done" => Len(sentinels[w]) = Cardinality(matching))

\* C3, witness: two resources matched, rank 0 is done, the last worker
\* never received a job and was sent two sentinels.
C3_Witness ==
    /\ numworkers = NumWorkers
    /\ mpc = "done"
    /\ matching = {1, 2}
    /\ wres[NumWorkers] = 2
    /\ recvlog[NumWorkers] = <<>>
    /\ sentinels[NumWorkers] = <<1, 2>>
    /\ sentlog # <<>>

(***************************************************************************)
(* Properties of summarizejob() (specification RunnerSpec).                *)
(***************************************************************************)

\* The rules of the classification, in their order: <<reason, condition>>.
Rules(j, o) ==
    << <<PARALLEL_TOO_SHORT, j.nodecount > 1 /\ j.walltime < 300>>,
       <<TIME_TOO_SHORT, j.walltime <= 180>>,
       <<INVALID_NODECOUNT, j.nodecount < 1>>,
       <<NO_ARCHIVES, ~j.has_any_archives>>,
       <<RAW_ARCHIVES, ~j.has_enough_raw_archives>>,
       <<JOB_TOO_BIG, o.max_nodes > 0 /\ j.nodecount > o.max_nodes>>,
       <<TIME_TOO_LONG, j.walltime >= 176400>> >>

\* The reason of the first rule that matches, None when none does.
FirstMatch(j, o) ==
    LET rs == Rules(j, o)
        hits == {k \in 1..Len(rs) : rs[k][2]}
    IN IF hits = {} THEN None
       ELSE rs[CHOOSE k \in hits : \A h \in hits : k <= h][1]

SkipFlags == {SkipFlag(r) : r \in SkipReasons}

\* The classification chain has run to its end without raising.
Classified ==
    rpc = "extract" \/ (rpc = "extractonly" /\ extractcalls = 0)

ScenarioA == job.nodecount = 4 /\ job.walltime = 100

Skipped == errhistory # <<>> /\ errhistory[1] \in SkipReasons

\* C6, as claimed: for a job classified Skip the extraction and the
\* analysis are never called, and markasdone() is given the skip's reason
\* and success false unless the grace-period override applies, whatever
\* good_enough() returns.
C6_SkipIsLoggedNotDone ==
    Skipped =>
      /\ extractcalls = 0
      /\ processcalls = 0
      /\ \A i \in 1..Len(marked) :
           /\ marked[i].errorcode = errhistory[1]
           /\ (marked[i].success => force_success)

\* The number of missing nodes of a job whose extraction returned mr.
Missing(mr) == 0 - mr

\* The extraction was called and returned (line 267 was executed).
Extracted == extractcalls = 1 /\ missingfloat

\* The enough-nodes decision of lines 279-288 has just been taken.
Decided == rpc \in {"mdata", "evaluate", "mark"}

\* C7: for a job whose extraction returned (its nodecount is >= 1): with
\* mergeresult # 0 and missing / nodecount < 0.05 the analysis is invoked;
\* with missing / nodecount >= 0.05 (no code was set before) the code
\* becomes PMLOGEXTRACT_ERROR, its flag is set and the analysis is never
\* invoked.  20 * missing < nodecount states missing / nodecount < 0.05, so
\* that 1 of 20 is not enough.
C7_EnoughNodesThreshold ==
    Extracted =>
      /\ job.nodecount >= 1
      /\ (Decided /\ mergeresult # 0
            /\ 20 * Missing(mergeresult) < job.nodecount =>
              processcalls = 1 /\ enough_nodes)
      /\ (20 * Missing(mergeresult) >= job.nodecount => processcalls = 0)
      /\ (Decided /\ 20 * Missing(mergeresult) >= job.nodecount =>
            /\ errhistory = <<PMLOGEXTRACT_ERROR>>
            /\ summarizeerror = PMLOGEXTRACT_ERROR
            /\ "skipped_pmlogextract_error" \in mdata
            /\ ~enough_nodes)

\* C7, witness: 1 missing node of 20 (ratio exactly 0.05) was decided not
\* enough.
C7_Witness ==
    /\ Extracted
    /\ rpc = "mdata"
    /\ job.nodecount = 20
    /\ mergeresult = -1
    /\ summarizeerror = PMLOGEXTRACT_ERROR
    /\ processcalls = 0

\* The job and the extraction result of scenarios B and C.
ScenarioB ==
    /\ job.nodecount = 8
    /\ job.walltime = 3600
    /\ Extracted
    /\ mergeresult = 0

\* C8: when markasdone() is called for a job whose analysis was invoked,
\* the verdict follows good_enough(): true gives success with no error
\* code; false gives SUMMARIZATION_ERROR, its flag, and success false
\* unless the grace period forces it.
C8_VerdictFollowsGoodEnough ==
    processcalls = 1 =>
      \A i \in 1..Len(marked) :
        IF success
          THEN marked[i] = [success |-> TRUE, errorcode |-> None]
          ELSE /\ marked[i].errorcode = SUMMARIZATION_ERROR
               /\ marked[i].success = force_success
               /\ "skipped_summarization_error" \in mdata

\* C8, witness: scenario B, logged as done with no error code.
C8_Witness ==
    /\ ScenarioB
    /\ processcalls = 1
    /\ success
    /\ marked = <<[success |-> TRUE, errorcode |-> None]>>

\* C9: summarizeerror is assigned at most once in a run: it is None until
\* its one assignment and holds the assigned reason from then on, and
\* markasdone() is given that reason.
C9_ErrorAssignedOnce ==
    /\ Len(errhistory) <= 1
    /\ summarizeerror =
         (IF errhistory = <<>> THEN None ELSE errhistory[1])
    /\ \A i \in 1..Len(marked) : marked[i].errorcode = summarizeerror

\* C9, witness: a skipped job went through the SUMMARIZATION_ERROR test
\* with good_enough() false and through the grace-period override, and
\* kept its reason.
C9_Witness ==
    /\ errhistory = <<INVALID_NODECOUNT>>
    /\ ~success
    /\ force_success
    /\ marked = <<[success |-> TRUE, errorcode |-> INVALID_NODECOUNT]>>

\* The instants the clock may show at or after t.
LaterNows(t) == {u \in {job.end_datetime + d : d \in ElapsedValues} : u >= t}

\* C10: when markasdone() is called with the underlying success false, the
\* success passed is true exactly when now - end_datetime > force_timeout,
\* and the error code passed is the one assigned before; a success that was
\* forced at now is forced at every later now.
C10_GraceOverride ==
    \A i \in 1..Len(marked) :
      /\ (~success =>
            /\ now # -1
            /\ marked[i].success =
                 (now - job.end_datetime > opts.force_timeout)
            /\ force_success = marked[i].success
            /\ marked[i].errorcode =
                 (IF errhistory = <<>> THEN None
                  ELSE errhistory[Len(errhistory)]))
      /\ (force_success =>
            \A u \in LaterNows(now) :
              GraceElapsed(u, job.end_datetime, opts.force_timeout))

\* C10, witness: scenario C, good_enough() false 50 days after the end of
\* the job with a grace period of 48 hours: SUMMARIZATION_ERROR, success
\* forced.
C10_Witness ==
    /\ ScenarioB
    /\ ~success
    /\ now - job.end_datetime = 50 * 86400
    /\ opts.force_timeout = 48 * 3600
    /\ marked = <<[success |-> TRUE, errorcode |-> SUMMARIZATION_ERROR]>>

(***************************************************************************)
(* Properties of a run of summarizejob() that meets an exception or runs   *)
(* in extract-only mode (specification RunnerSpec).                        *)
(***************************************************************************)

\* summarizejob() returned to its caller.
Returned == rpc = "returned"

\* C11: a job that fails is recorded in the log: every run of summarizejob()
\* that ends without success outside extract-only mode, a run ended by a
\* contained exception of classification, extraction, analysis or the
\* outcome sink included, has called dblog.markasdone() for the job.
C11_FailureIsRecorded ==
    (Returned /\ ~opts.extractonly /\ ~retval) => Len(marked) >= 1


\* The job has a working directory and the options ask for its removal.
DeletionDue == opts.dodelete /\ job.jobdir # None

C14_ExtractOnly ==
    opts.extractonly =>
      /\ rpc \in {"classify", "extract", "extractonly", "except", "cleanup",
                  "returned"}
      /\ processcalls = 0
      /\ sink = <<>>
      /\ marked = <<>>
      /\ rmtrees = 0
      /\ (Returned /\ raised = <<>> => retval = (mergeresult = 0))
      /\ (Returned /\ raised = <<>> /\ summarizeerror # None => ~retval)

\* An extract-only run whose extraction gave 0 and returned True with the
\* job directory still there.
C14_Witness ==
    /\ Returned
    /\ opts.extractonly
    /\ extractcalls = 1
    /\ retval
    /\ direxists

\* The skip flags of the error codes assigned so far.
AssignedFlags == {SkipFlag(errhistory[i]) : i \in 1..Len(errhistory)}

\* C18: the metadata m.process(s, mdata) receives holds the skip flag of
\* every error code assigned to the job, skipped_summarization_error
\* included, mergetime, missingnodes exactly when missingnodes > 0 and tag
\* exactly when a tag is configured.
C18_SinkHasEveryFlag ==
    \A i \in 1..Len(sink) :
      /\ AssignedFlags \subseteq sink[i]
      /\ "mergetime" \in sink[i]
      /\ ("missingnodes" \in sink[i]) = (missingnodes > 0)
      /\ ("tag" \in sink[i]) = (opts.tag # None)

\* C20: a record of failure has a reason and the two late error codes
\* exclude each other: when dblog.markasdone() was called while success was
\* False the error code passed is not None, and mdata never holds both
\* skipped_pmlogextract_error and skipped_summarization_error.
C20_FailureHasReason ==
    /\ \A i \in 1..Len(marked) :
         ~success => marked[i].errorcode # None
    /\ ~({SkipFlag(PMLOGEXTRACT_ERROR), SkipFlag(SUMMARIZATION_ERROR)}
           \subseteq mdata)

\* dblog.markasdone() was called for an extracted job that good_enough()
\* rejected, with SUMMARIZATION_ERROR.
C20_Witness ==
    /\ Len(marked) = 1
    /\ ~success
    /\ extractcalls = 1
    /\ marked[1].errorcode = SUMMARIZATION_ERROR
    /\ SkipFlag(PMLOGEXTRACT_ERROR) \notin mdata

(***************************************************************************)
(* The two machines agree: what a call of summarizejob() that has ended    *)
(* did is what the worker loop takes it to do (specification RunnerSpec).  *)
(***************************************************************************)
RunnerOutcome ==
    rpc \in {"returned", "propagated"} =>
      /\ raised \in RaiseRuns(opts.dodelete)
      /\ Len(marked) = MarkasdoneCalls(raised, opts.extractonly)
      /\ (rpc = "propagated") = (Propagated(raised) # None)

(***************************************************************************)
(* Properties of the protocol with the outcomes of summarizejob()          *)
(* (specification Spec).                                                   *)
(***************************************************************************)

\* C12: dblog.markasdone() is called at most once for each job of a stream,
\* whatever the interleaving of the workers, the order of the completion
\* reports and the exceptions the runs meet.
C12_MarkedAtMostOnce ==
    \A k \in DOMAIN marklog : marklog[k] <= 1

\* A stream with more jobs than workers has been drained: one job was run
\* by a call that met a contained exception before line 317 and has no
\* record, every other job has exactly one.
C12_Witness ==
    /\ mpc = "shutdown"
    /\ numworkers = NumWorkers
    /\ njobs > NumWorkers
    /\ marklog[1] = 0
    /\ \A k \in 2..njobs : marklog[k] = 1

\* The call of summarizejob() for the i-th job rank w received for the
\* resource it is at has returned.
Completed(w, i) ==
    /\ i \in 1..Len(recvlog[w])
    /\ (i < Len(recvlog[w]) \/ wpc[w] \notin {"processing", "aborted"})

\* That call returned without a call of dblog.markasdone(): it contained an
\* exception raised before line 317 (the options of Spec are not
\* extract-only).
ContainedFailure(w, i) ==
    /\ Completed(w, i)
    /\ wres[w] = mres
    /\ recvlog[w][i][1][2] \in DOMAIN marklog
    /\ marklog[recvlog[w][i][1][2]] = 0

\* The number of calls of summarizejob() that returned on rank w for the
\* resource it is at.
NumCompleted(w) == Cardinality({i \in 1..Len(recvlog[w]) : Completed(w, i)})

\* C15: failure isolation.  An exception raised by classification,
\* extraction, analysis or outcome logging never ends a worker; a worker
\* that ran a job whose call contained such an exception has sent exactly
\* one report for each call that returned, that one included, and is back
\* in the loop (waiting, or processing a later job).
C15_FailureIsolation ==
    \A w \in Workers :
      /\ aborted[w] # <<>> => aborted[w][1] \notin TryStages
      /\ \A i \in 1..Len(recvlog[w]) :
           ContainedFailure(w, i) =>
             /\ reportlog[w] = NumCompleted(w)
             /\ reportlog[w] >= i
             /\ wpc[w] # "aborted" \/ i < Len(recvlog[w])

\* The first job a worker received met a contained exception; the worker
\* reported it, received a second job and completed it as well.
C15_Witness ==
    \E w \in Workers :
      /\ Len(recvlog[w]) = 2
      /\ ContainedFailure(w, 1)
      /\ Completed(w, 2)
      /\ marklog[recvlog[w][2][1][2]] = 1
      /\ reportlog[w] = 2

\* C16: rank 0 sends a job only to a worker that holds none.  The k-th job
\* of the initial batch goes to rank k; afterwards a job goes to the rank
\* whose report was just received; each worker has at most one job sent to
\* it and not reported (or reported and not yet received by rank 0), and
\* numsent - numreceived <= numworkers.
C16_OneJobPerWorker ==
    /\ \A i \in 1..Len(sentlog) : i <= numworkers => sentlog[i][2] = i
    /\ \A w \in Workers :
         /\ Outstanding(w) + Len(tom[w]) <= 1
         /\ \A i \in 1..Len(tom[w]) : tom[w][i] = w
    /\ (mpc = "send" =>
          /\ process \in Workers
          /\ Outstanding(process) = 0
          /\ tom[process] = <<>>)
    /\ (Len(sentlog) > numworkers /\ mpc # "send" =>
          sentlog[Len(sentlog)][2] = process)
    /\ numsent - numreceived <= numworkers

\* Rank 0 has sent a job in the steady state to the last rank, which has
\* not received it yet, while every worker has a job outstanding.
C16_Witness ==
    /\ numworkers = NumWorkers
    /\ mpc = "stream"
    /\ Len(sentlog) > numworkers
    /\ process = NumWorkers
    /\ tow[NumWorkers] # <<>>
    /\ \A w \in Workers : Outstanding(w) = 1
    /\ numsent - numreceived = numworkers

\* The sentinels rank w has received.
ReceivedSentinels(w) ==
    Len(sentinels[w])
      - Cardinality({i \in 1..Len(tow[w]) : tow[w][i] = None})

\* What holds of rank w in every state of the worker loop: it holds a job
\* exactly while summarizejob() runs (or has ended the rank), and it has
\* sent one report, its own rank, for each call that returned.
WorkerLoopState(w) ==
    /\ (wjob[w] # None) = (wpc[w] \in {"processing", "aborted"})
    /\ reportlog[w] = NumCompleted(w)
    /\ \A i \in 1..Len(tom[w]) : tom[w][i] = w

\* C17, as claimed: the worker loop protocol with Terminated as a terminal
\* state: a worker that has received a sentinel sends no further message
\* afterwards, at whatever resource it is.
C17_WorkerLoopTerminal ==
    \A w \in Workers :
      /\ WorkerLoopState(w)
      /\ (ReceivedSentinels(w) >= 1 /\ wres[w] > sentinels[w][1] =>
            reportlog[w] = 0)

\* The steps of rank w: it starts processing only from waiting, on a message
\* that is a job, which it then holds; it sends a message only when
\* summarizejob() has returned, one report, and waits again; it leaves the
\* loop only from waiting, on None; outside the loop it sends nothing.
WorkerLoopStep(w) ==
    /\ (wpc[w] # "processing" /\ wpc'[w] = "processing" =>
          /\ wpc[w] = "waiting"
          /\ tow[w] # <<>>
          /\ Head(tow[w]) # None
          /\ wjob'[w] = Head(tow[w]))
    /\ (Len(tom'[w]) > Len(tom[w]) =>
          /\ wpc[w] = "processing"
          /\ wpc'[w] = "waiting"
          /\ tom'[w] = Append(tom[w], w)
          /\ wjob'[w] = None)
    /\ (wpc[w] # "resources" /\ wpc'[w] = "resources" =>
          /\ wpc[w] = "waiting"
          /\ tow[w] # <<>>
          /\ Head(tow[w]) = None)
    /\ (wpc[w] \in {"resources", "done", "aborted"} =>
          Len(tom'[w]) <= Len(tom[w]))

\* C17, amended: the worker loop protocol for each matching resource; a
\* worker that left the loop on a sentinel sends nothing until it enters
\* the loop of a later matching resource, where it serves jobs again.
C17_WorkerLoopPerResource ==
    /\ [](\A w \in Workers : WorkerLoopState(w))
    /\ [][\A w \in Workers : WorkerLoopStep(w)]_vars

\* A worker that received the sentinel of the first resource has completed
\* and reported a job of the second resource and waits for more.
C17_Witness ==
    \E w \in Workers :
      /\ ReceivedSentinels(w) >= 1
      /\ wres[w] > sentinels[w][1]
      /\ reportlog[w] = 1
      /\ wpc[w] = "waiting"

(***************************************************************************)
(* Termination (specification FairSpec).                                   *)
(***************************************************************************)

\* processjobs() has returned on every rank.
Finished == mpc = "done" /\ \A w \in Workers : wpc[w] = "done"

\* Every job the stream of the current resource yields has been received by
\* a worker whose call of summarizejob() for it has returned.
AllJobsRun ==
    \A k \in 1..njobs :
      \E w \in Workers : \E i \in 1..Len(recvlog[w]) :
        /\ recvlog[w][i] = <<JobOf(mres, k), mres>>
        /\ Completed(w, i)

\* C19: with every call of summarizejob() returning and every rank
\* scheduled fairly, no state is a deadlock, the drain loop ends (the first
\* sentinel is about to be sent) only when every job of the stream has
\* been run to completion, and every rank
\* eventually returns from processjobs(): the workers have left their last
\* loop and rank 0 its last resource.
C19_Termination ==
    /\ [](Finished \/ ENABLED FairNext)
    /\ [](mpc = "shutdown" /\ shutidx = 0 => AllJobsRun)
    /\ <>Finished

\* Every rank has returned after two passes, the last over a stream with
\* fewer jobs than workers.
C19_Witness ==
    /\ Finished
    /\ matching = Resources
    /\ numworkers = NumWorkers
    /\ njobs = 1
    /\ marklog = <<1>>

(***************************************************************************)
(* The sign of the merge result (specification RunnerSpec).                *)
(***************************************************************************)

\* C21: for a job whose extraction returned, missingnodes is -mergeresult
\* whatever the sign; s.process() is called exactly when mergeresult >= 0
\* or (-mergeresult) / nodecount < 0.05; after a positive mergeresult
\* missingnodes is negative, the job has enough nodes, s.process() is
\* called, PMLOGEXTRACT_ERROR is never assigned and mdata never gets the
\* key missingnodes.
C21_PositiveMergeResult ==
    Extracted =>
      /\ missingnodes = 0 - mergeresult
      /\ (Decided =>
            (processcalls = 1) =
              (mergeresult >= 0 \/ 20 * (0 - mergeresult) < job.nodecount))
      /\ (mergeresult > 0 =>
            /\ missingnodes < 0
            /\ (Decided => processcalls = 1 /\ enough_nodes)
            /\ \A i \in 1..Len(errhistory) :
                 errhistory[i] # PMLOGEXTRACT_ERROR
            /\ "skipped_pmlogextract_error" \notin mdata
            /\ "missingnodes" \notin mdata)

\* The extraction of a one-node job returned 1 and the metadata went to the
\* sink after s.process() was called, without the key missingnodes.
C21_Witness ==
    /\ Extracted
    /\ job.nodecount = 1
    /\ mergeresult = 1
    /\ missingnodes = -1
    /\ processcalls = 1
    /\ Len(sink) = 1
    /\ "missingnodes" \notin sink[1]

(***************************************************************************)
(* Several matching resources (specification Spec).                        *)
(***************************************************************************)

\* The number of the pass over resource r: the matching resources up to r.
PassOf(r) == Cardinality({x \in matching : x <= r})

\* The sentinels ahead of the i-th message in the queue to rank w.
SentinelsAhead(w, i) ==
    Cardinality({k \in 1..(i - 1) : tow[w][k] = None})

\* C22: the passes of rank 0 and of the workers stay in step.  A worker in
\* its loop is at a matching resource and has received one sentinel for
\* each matching resource before it; every job it received or holds is a
\* job of the resource it is at; a job in flight is a job of the resource
\* rank 0 is at and the worker will have received the sentinels of all
\* earlier passes when it takes it; a completion report is in flight only
\* while rank 0 is in the pass of the resource the worker is at.
C22_PassesInStep ==
    \A w \in Workers :
      /\ \A i \in 1..Len(recvlog[w]) :
           recvlog[w][i][1][1] = recvlog[w][i][2]
      /\ (wjob[w] # None => wjob[w][1] = wres[w] /\ wres[w] = mres)
      /\ (wpc[w] \in {"waiting", "processing", "aborted"} =>
            /\ wres[w] \in matching
            /\ ReceivedSentinels(w) = PassOf(wres[w]) - 1)
      /\ \A i \in 1..Len(tow[w]) :
           tow[w][i] # None =>
             /\ tow[w][i][1] = mres
             /\ ReceivedSentinels(w) + SentinelsAhead(w, i)
                  = PassOf(mres) - 1
      /\ (tom[w] # <<>> =>
            wres[w] = mres /\ mpc \in {"stream", "send", "drain"})

\* Rank 0 is already in the pass of the second resource and has sent a job
\* of it to a worker that is still in the pass of the first: the sentinel
\* is ahead of the job in the queue.
C22_Witness ==
    \E w \in Workers :
      /\ matching = {1, 2}
      /\ mres = 2
      /\ wres[w] = 1
      /\ wpc[w] = "waiting"
      /\ Len(tow[w]) = 2
      /\ tow[w][1] = None
      /\ tow[w][2] = JobOf(2, 1)

====
